---- MODULE Spec2Model ----
(***************************************************************************)
(* Model of the /fortune handler of src/index.js: request validation,      *)
(* prompt construction, the model/attempt loop around the Groq completion  *)
(* call, response cleaning, JSON decoding, schema and word-count           *)
(* validation, and the hard-coded fallback.                                *)
(*                                                                         *)
(* Strings are sequences of one-character strings.  A JSON document is     *)
(* abstracted to one atom character (a member of DocAtoms) that stands for *)
(* the whole text of that document; DocValue gives the value JSON.parse    *)
(* decodes it to.                                                          *)
(***************************************************************************)
EXTENDS Integers, Sequences, FiniteSets, TLC

(***************************************************************************)
(* Bounds of the model.                                                    *)
(***************************************************************************)
\* Largest number of words of a finalMessage the provider sends.
MaxWords == 16
\* Number of entries kept of each hard-coded fallback pool.
PoolSize == 2
\* Number of entries kept of each focus-area list.
FocusSize == 1
\* Largest number of pieces of a response text given to the cleaner.
MaxTokens == 5

(***************************************************************************)
(* Program constants.                                                      *)
(***************************************************************************)
maxAttempts == 3
WordLimit == 15

\* The first two models exchanged.
fallbackModels_swapped ==
  << "llama3-70b-8192", "llama-3.3-70b-versatile", "mixtral-8x7b-32768",
     "gemma2-9b-it", "llama-3.1-8b-instant", "llama3-8b-8192" >>

fallbackModels ==
  << "llama-3.3-70b-versatile", "llama3-70b-8192", "mixtral-8x7b-32768",
     "gemma2-9b-it", "llama-3.1-8b-instant", "llama3-8b-8192" >>

FALLBACK_WHOLESOME == [i \in 1..PoolSize |-> <<"W", ToString(i)>>]
FALLBACK_DARK == [i \in 1..PoolSize |-> <<"D", ToString(i)>>]
WHOLESOME_FOCUS_AREAS == [i \in 1..FocusSize |-> <<"w", ToString(i)>>]
DARK_FOCUS_AREAS == [i \in 1..FocusSize |-> <<"d", ToString(i)>>]

(***************************************************************************)
(* JavaScript strings.                                                     *)
(***************************************************************************)
IsSpace(c) == c \in {" ", "\n", "\t"}

RECURSIVE TrimStart(_)
TrimStart(s) ==
  IF s # <<>> /\ IsSpace(Head(s)) THEN TrimStart(Tail(s)) ELSE s

RECURSIVE TrimEnd(_)
TrimEnd(s) ==
  IF s # <<>> /\ IsSpace(s[Len(s)])
  THEN TrimEnd(SubSeq(s, 1, Len(s) - 1))
  ELSE s

\* String.prototype.trim
Trim(s) == TrimEnd(TrimStart(s))

\* String.prototype.startsWith
StartsWith(s, p) == Len(s) >= Len(p) /\ SubSeq(s, 1, Len(p)) = p

\* The grave accent character (U+0060), and the marker of a fenced block.
Backtick == "bt"
Fence == <<Backtick, Backtick, Backtick>>

\* s.split("\n"): the pieces between newline characters, always at least one.
RECURSIVE SplitLines(_, _)
SplitLines(s, cur) ==
  IF s = <<>> THEN <<cur>>
  ELSE IF Head(s) = "\n" THEN <<cur>> \o SplitLines(Tail(s), <<>>)
  ELSE SplitLines(Tail(s), Append(cur, Head(s)))

\* parts.join("\n")
RECURSIVE JoinLines(_)
JoinLines(parts) ==
  IF parts = <<>> THEN <<>>
  ELSE IF Len(parts) = 1 THEN parts[1]
  ELSE parts[1] \o <<"\n">> \o JoinLines(Tail(parts))

\* s.split(/\s+/): the pieces between maximal runs of whitespace.
RECURSIVE SplitSpaces(_, _, _)
SplitSpaces(s, cur, inRun) ==
  IF s = <<>> THEN <<cur>>
  ELSE IF IsSpace(Head(s))
       THEN IF inRun THEN SplitSpaces(Tail(s), cur, TRUE)
            ELSE <<cur>> \o SplitSpaces(Tail(s), <<>>, TRUE)
       ELSE SplitSpaces(Tail(s), Append(cur, Head(s)), FALSE)

\* n words separated by single spaces.
RECURSIVE Words(_)
Words(n) ==
  IF n = 0 THEN <<>>
  ELSE IF n = 1 THEN <<"a">>
  ELSE Words(n - 1) \o <<" ", "a">>

(***************************************************************************)
(* JavaScript values and errors.                                           *)
(***************************************************************************)
NoFields == [x \in {} |-> 0]
JUndefined == [t |-> "undefined", v |-> <<>>, f |-> NoFields]
JNull == [t |-> "null", v |-> <<>>, f |-> NoFields]
JStr(s) == [t |-> "string", v |-> s, f |-> NoFields]
JNum(n) == [t |-> "number", v |-> <<n>>, f |-> NoFields]
JBool(b) == [t |-> "boolean", v |-> <<b>>, f |-> NoFields]
JArr == [t |-> "array", v |-> <<>>, f |-> NoFields]
JObj(fields) == [t |-> "object", v |-> <<>>, f |-> fields]
\* An array of strings.
JArrOf(strs) ==
  [t |-> "array", v |-> [i \in 1..Len(strs) |-> JStr(strs[i])], f |-> NoFields]

\* typeof x
TypeOf(x) ==
  IF x.t \in {"null", "array", "object"} THEN "object" ELSE x.t

\* x.name throws a TypeError exactly when x is null or undefined.
GetThrows(x) == x.t \in {"null", "undefined"}

\* x.name when it does not throw.
Get(x, name) ==
  IF x.t = "object" /\ name \in DOMAIN x.f THEN x.f[name] ELSE JUndefined

NoError == [name |-> "none", status |-> "none", message |-> "none"]
Err(name, message) == [name |-> name, status |-> "none", message |-> message]
APIError(status) == [name |-> "APIError", status |-> status, message |-> "api"]

\* Outcome of evaluating an expression: a value, or a thrown error.
Returned(x) == [ok |-> TRUE, value |-> x, error |-> NoError]
Thrown(e) == [ok |-> FALSE, value |-> JUndefined, error |-> e]

(***************************************************************************)
(* cleanJSONResponse, JSON.parse and the validation of a decoded value.    *)
(***************************************************************************)
\* cleanJSONResponse(responseText): after parts.shift() of a one-line text
\* parts is empty, parts[parts.length - 1] is undefined and .startsWith
\* throws a TypeError.
cleanJSONResponse(responseText) ==
  LET trimmed == Trim(responseText)
      parts == SplitLines(trimmed, <<>>)
      shifted == IF StartsWith(parts[1], Fence) THEN Tail(parts) ELSE parts
      popped == IF StartsWith(shifted[Len(shifted)], Fence)
                THEN SubSeq(shifted, 1, Len(shifted) - 1)
                ELSE shifted
  IN  IF StartsWith(trimmed, Fence)
      THEN IF shifted = <<>>
           THEN Thrown(Err("TypeError", "startsWith of undefined"))
           ELSE Returned(JStr(Trim(JoinLines(popped))))
      ELSE Returned(JStr(responseText))

ValidDoc(n) ==
  JObj([reasoning |-> JStr(<<"r">>), score |-> JNum("7"),
        finalMessage |-> JStr(Words(n))])

\* The JSON documents the provider sends: atom character |-> decoded value.
DocValue ==
  [ ok0 |-> ValidDoc(0),
    ok14 |-> ValidDoc(WordLimit - 1),
    ok15 |-> ValidDoc(WordLimit),
    okMax |-> ValidDoc(MaxWords),
    okBlank |-> JObj([reasoning |-> JStr(<<"r">>), score |-> JNum("7"),
                      finalMessage |-> JStr(<<" ", "\n">>)]),
    okPadded |-> JObj([reasoning |-> JStr(<<>>), score |-> JNum("0"),
                       finalMessage |->
                         JStr(<<" ", "a", " ", "\t", "a", "\n">>)]),
    noReasoning |-> JObj([score |-> JNum("7"),
                          finalMessage |-> JStr(Words(1))]),
    noScore |-> JObj([reasoning |-> JStr(<<"r">>),
                      finalMessage |-> JStr(Words(1))]),
    noMessage |-> JObj([reasoning |-> JStr(<<"r">>), score |-> JNum("7")]),
    numReasoning |-> JObj([reasoning |-> JNum("1"), score |-> JNum("7"),
                           finalMessage |-> JStr(Words(1))]),
    strScore |-> JObj([reasoning |-> JStr(<<"r">>), score |-> JStr(<<"7">>),
                       finalMessage |-> JStr(Words(1))]),
    nullMessage |-> JObj([reasoning |-> JStr(<<"r">>), score |-> JNum("7"),
                          finalMessage |-> JNull]),
    empty |-> JObj(NoFields),
    null |-> JNull,
    array |-> JArr,
    number |-> JNum("7"),
    string |-> JStr(<<"a">>),
    boolean |-> JBool("true") ]

DocAtoms == DOMAIN DocValue

\* JSON.parse(text): insignificant whitespace around the one document is
\* skipped; any other text is a SyntaxError.
JSONparse(text) ==
  LET body == Trim(text)
  IN  IF Len(body) = 1 /\ body[1] \in DocAtoms
      THEN Returned(DocValue[body[1]])
      ELSE Thrown(Err("SyntaxError", "unexpected token"))

\* The count taken without trimming the message first.
wordCount_noTrim(finalMessage) == Len(SplitSpaces(finalMessage, <<>>, FALSE))

\* parsed.finalMessage.trim().split(/\s+/).length
wordCount(finalMessage) == Len(SplitSpaces(Trim(finalMessage), <<>>, FALSE))

\* wordCount > 15
TooManyWords_offByOne(finalMessage) == wordCount(finalMessage) > WordLimit

\* wordCount >= 15
TooManyWords(finalMessage) == wordCount(finalMessage) >= WordLimit

\* The schema condition of the handler; || evaluates left to right, so
\* parsed.reasoning is read (and throws on null) only for typeof "object".
SchemaThrowsTypeError(parsed) ==
  TypeOf(parsed) = "object" /\ GetThrows(parsed)

\* The schema condition without the test of score.
SchemaMismatch_noScore(parsed) ==
  \/ TypeOf(parsed) # "object"
  \/ TypeOf(Get(parsed, "reasoning")) # "string"
  \/ TypeOf(Get(parsed, "finalMessage")) # "string"

SchemaMismatch(parsed) ==
  \/ TypeOf(parsed) # "object"
  \/ TypeOf(Get(parsed, "reasoning")) # "string"
  \/ TypeOf(Get(parsed, "score")) # "number"
  \/ TypeOf(Get(parsed, "finalMessage")) # "string"

\* The validation with a finalMessage of no words refused.
Validate_nonBlank(parsed) ==
  IF SchemaThrowsTypeError(parsed)
  THEN Thrown(Err("TypeError", "property of null"))
  ELSE IF SchemaMismatch(parsed)
  THEN Thrown(Err("Error", "Response JSON does not match the required schema"))
  ELSE IF \/ TooManyWords(Get(parsed, "finalMessage").v)
          \/ Trim(Get(parsed, "finalMessage").v) = <<>>
  THEN Thrown(Err("Error", "finalMessage contains too many words"))
  ELSE Returned(parsed)

\* The decoded value kept without any validation.
Validate_none(parsed) == Returned(parsed)

\* Schema and word-count validation of a decoded value: the value accepted,
\* or the error thrown.
Validate(parsed) ==
  IF SchemaThrowsTypeError(parsed)
  THEN Thrown(Err("TypeError", "property of null"))
  ELSE IF SchemaMismatch(parsed)
  THEN Thrown(Err("Error", "Response JSON does not match the required schema"))
  ELSE IF TooManyWords(Get(parsed, "finalMessage").v)
  THEN Thrown(Err("Error", "finalMessage contains too many words"))
  ELSE Returned(parsed)

\* Truthiness of a value, as tested by ! and by if.
Truthy(x) ==
  CASE x.t \in {"null", "undefined"} -> FALSE
    [] x.t = "string" -> x.v # <<>>
    [] x.t = "number" -> x.v # <<"0">>
    [] x.t = "boolean" -> x.v = <<"true">>
    [] OTHER -> TRUE

(***************************************************************************)
(* The provider: what one awaited groq.chat.completions.create call can    *)
(* produce.                                                                *)
(***************************************************************************)
\* Texts the provider wraps a document in.
Plain(d) == <<d>>
Padded(d) == <<" ", d, "\n">>
Fenced(d) == Fence \o <<"j", "\n", d, "\n">> \o Fence
FencedOpen(d) == Fence \o <<"\n", d>>
FencedOneLine(d) == Fence \o <<d>> \o Fence

ResponseTexts ==
  { Plain(d) : d \in DocAtoms }
  \cup { Padded("ok14"), Fenced("ok14"), FencedOpen("okPadded"),
         FencedOneLine("ok14"), Fence, <<"x">>, <<"ok14", "ok14">> }

\* A rejected call (the error thrown at the await), or a completion whose
\* choices[0]?.message?.content is undefined, empty, or a text.
ProviderOutcomes ==
  { [thrown |-> TRUE, error |-> APIError(st), content |-> JUndefined] :
      st \in {"429", "500", "none"} }
  \cup { [thrown |-> FALSE, error |-> NoError, content |-> c] :
           c \in {JUndefined, JStr(<<>>)} \cup { JStr(t) : t \in ResponseTexts } }

\* The status is compared with a string: no error is a rate limit.
IsRateLimit_strStatus(error) == error.name = "APIError" /\ error.status = "'429'"

\* The status is not compared: every API error is a rate limit.
IsRateLimit_anyAPIError(error) == error.name = "APIError"

\* error instanceof Groq.APIError && error.status === 429
IsRateLimit(error) == error.name = "APIError" /\ error.status = "429"

\* The body of the try block for one provider outcome: the accepted parsed
\* value, or the error that reaches the catch clause.
TryBody(o) ==
  IF o.thrown THEN Thrown(o.error)
  ELSE IF ~Truthy(o.content)
  THEN Thrown(Err("Error", "Empty response from Groq API"))
  ELSE LET cleaned == cleanJSONResponse(o.content.v)
       IN  IF ~cleaned.ok THEN cleaned
           ELSE LET parsed == JSONparse(cleaned.value.v)
                IN  IF ~parsed.ok THEN parsed ELSE Validate(parsed.value)

\* The try block's result for each provider outcome.
TryBodyOf == [o \in ProviderOutcomes |-> TryBody(o)]

\* HTTP 429 from the provider, and its other rejections.
RateLimits == { o \in ProviderOutcomes : o.thrown /\ o.error.status = "429" }
TransportErrors == { o \in ProviderOutcomes : o.thrown /\ o.error.status # "429" }
ValidCompletions == { o \in ProviderOutcomes : TryBodyOf[o].ok }
EmptyCompletions == { o \in ProviderOutcomes : ~o.thrown /\ ~Truthy(o.content) }

\* The provider adapters: the unconstrained one, and the scripted ones, which
\* fix the outcome of the k-th call of an invocation.
Adapters ==
  {"any", "rateLimited", "transportThenSuccess", "successFirst",
   "emptyOrTransport"}

Scripted(adapter, k) ==
  CASE adapter = "rateLimited" -> RateLimits
    [] adapter = "transportThenSuccess" /\ k < maxAttempts -> TransportErrors
    [] adapter = "transportThenSuccess" /\ k = maxAttempts -> ValidCompletions
    [] adapter = "successFirst" /\ k = 1 -> ValidCompletions
    [] adapter = "emptyOrTransport" -> EmptyCompletions \cup TransportErrors
    [] OTHER -> ProviderOutcomes

(***************************************************************************)
(* getRandomElements.                                                      *)
(***************************************************************************)
Swap(arr, i, j) == [arr EXCEPT ![i] = arr[j], ![j] = arr[i]]

\* The arrays the shuffle loop can leave, from index i down to 2.
RECURSIVE Shuffle(_, _)
Shuffle(arr, i) ==
  IF i <= 1 THEN {arr}
  ELSE UNION { Shuffle(Swap(arr, i, j), i - 1) : j \in 1..i }

getRandomElementsThrows(arr, count) == Len(arr) < count

\* The shuffle run on the argument itself.
ArrayAfter_inPlace(arr) == Shuffle(arr, Len(arr))

\* The argument array once getRandomElements has returned: the shuffle runs
\* on the copy arr.slice(), the argument is left as it was.
ArrayAfter(arr) == {arr}

getRandomElements(arr, count) ==
  { SubSeq(shuffled, 1, count) : shuffled \in Shuffle(arr, Len(arr)) }

(***************************************************************************)
(* The /fortune handler.  JavaScript runs a handler to completion between  *)
(* two awaits, so one action is the code from one suspension point to the  *)
(* next.                                                                   *)
(***************************************************************************)
\* The requests; Spec runs the invocation of request Isolated alone.
Reqs == {1, 2}
Isolated == CHOOSE r \in Reqs : \A q \in Reqs : r <= q

VARIABLES
  pc,                    \* "idle", "await" (provider call in flight), "done"
  theme,                 \* req.body.theme
  systemPrompt,
  userPrompt,
  model,                 \* index in fallbackModels of the for loop
  attempts,
  finalMessageResponse,
  lastError,
  sent,                  \* what the handler did with res / next
  ended,                 \* number of calls of res.json and next it made
  provider,              \* the adapter serving the invocation
  recent,                \* history: the last two provider calls, in order
  pools,                 \* the arrays FALLBACK_WHOLESOME and FALLBACK_DARK
  kind,                  \* function under test: "none", "text", "decoded"
  arg,                   \* the input the function under test is given
  out                    \* the results of its successive applications

handlerVars == << pc, theme, systemPrompt, userPrompt, model, attempts,
                  finalMessageResponse, lastError, sent, ended, provider,
                  recent, pools >>
vars == << pc, theme, systemPrompt, userPrompt, model, attempts,
           finalMessageResponse, lastError, sent, ended, provider, recent,
           pools, kind, arg, out >>

Ladder == 1..Len(fallbackModels)

NothingSent == [via |-> "none", status |-> 0, body |-> <<>>]

\* The pools as the module's const declarations leave them.
LoadedPools == [wholesome |-> FALLBACK_WHOLESOME, dark |-> FALLBACK_DARK]

\* The pool the fallback branch selects from: theme == "wholesome" ? ... : ...
PoolKey(th) == IF th = JStr(<<"wholesome">>) THEN "wholesome" ELSE "dark"

\* req.body.theme of the requests received.
Themes ==
  { JStr(<<"wholesome">>), JStr(<<"dark">>), JStr(<<"Dark">>), JStr(<<>>),
    JUndefined, JNull, JNum("7"), JArr }

\* body("theme").isString()
validateFortuneRequest_noIsIn(t) == TypeOf(t) = "string"

\* body("theme").isString().isIn(["wholesome", "dark"])
validateFortuneRequest(t) ==
  TypeOf(t) = "string" /\ t.v \in {<<"wholesome">>, <<"dark">>}

Init ==
  /\ pc = [r \in Reqs |-> "idle"]
  /\ theme = [r \in Reqs |-> JUndefined]
  /\ systemPrompt = [r \in Reqs |-> <<>>]
  /\ userPrompt = [r \in Reqs |-> <<>>]
  /\ model = [r \in Reqs |-> 0]
  /\ attempts = [r \in Reqs |-> 0]
  /\ finalMessageResponse = [r \in Reqs |-> JNull]
  /\ lastError = [r \in Reqs |-> NoError]
  /\ sent = [r \in Reqs |-> NothingSent]
  /\ ended = [r \in Reqs |-> 0]
  /\ provider = [r \in Reqs |-> "any"]
  /\ recent = [r \in Reqs |-> <<>>]
  /\ pools = LoadedPools
  /\ kind = "none" /\ arg = <<>> /\ out = <<>>

\* Where control stops next: at the await of a new provider call
\* (stop = "call") or after the for loop (stop = "exit").
RECURSIVE ForLoop(_, _), WhileLoop(_, _, _), AfterWhile(_, _, _)
\* attempts declared outside the for loop: not reset for the next model.
ForLoop_attemptsKept(m, a) ==
  IF m <= Len(fallbackModels)
  THEN WhileLoop(m, a, JNull)
  ELSE [stop |-> "exit", model |-> m, attempts |-> a]

\* The ladder started over when its end is reached.
ForLoop_startOver(m, a) ==
  IF m <= Len(fallbackModels)
  THEN WhileLoop(m, 0, JNull)
  ELSE WhileLoop(1, 0, JNull)

ForLoop(m, a) ==
  IF m <= Len(fallbackModels)
  THEN WhileLoop(m, 0, JNull)
  ELSE [stop |-> "exit", model |-> m, attempts |-> a]

\* && !finalMessageResponse forgotten
WhileLoop_ignoreFinal(m, a, final) ==
  IF a < maxAttempts
  THEN [stop |-> "call", model |-> m, attempts |-> a + 1]
  ELSE AfterWhile(m, a, final)

\* attempts + 1 < maxAttempts
WhileLoop_offByOne(m, a, final) ==
  IF a + 1 < maxAttempts /\ ~Truthy(final)
  THEN [stop |-> "call", model |-> m, attempts |-> a + 1]
  ELSE AfterWhile(m, a, final)

WhileLoop(m, a, final) ==
  IF a < maxAttempts /\ ~Truthy(final)
  THEN [stop |-> "call", model |-> m, attempts |-> a + 1]
  ELSE AfterWhile(m, a, final)

\* The for loop left after the first model, whatever the outcome.
AfterWhile_alwaysBreak(m, a, final) ==
  [stop |-> "exit", model |-> m, attempts |-> a]

AfterWhile(m, a, final) ==
  IF Truthy(final)
  THEN [stop |-> "exit", model |-> m, attempts |-> a]
  ELSE ForLoop(m + 1, a)

\* break on every error
CatchNext_breakAlways(error, m, a, final) == AfterWhile(m, a, final)

\* break forgotten
CatchNext_noBreak(error, m, a, final) == WhileLoop(m, a, final)

\* The catch clause: a rate limit breaks out of the while loop, any other
\* error returns to its condition.
CatchNext(error, m, a, final) ==
  IF IsRateLimit(error) THEN AfterWhile(m, a, final) ELSE WhileLoop(m, a, final)

\* The history stops counting calls one past the calls the loops can issue.
Counted(n) ==
  IF n > Len(fallbackModels) * maxAttempts + 1
  THEN Len(fallbackModels) * maxAttempts + 1
  ELSE n

\* The history stops counting the calls to one model one past maxAttempts.
Capped(n) == IF n > maxAttempts + 1 THEN maxAttempts + 1 ELSE n

\* A settled call that leaves its model with no permitted attempt: it was
\* rate limited, or it failed otherwise and was the maxAttempts-th call in
\* a row to that model.
Exhausts(c) ==
  \/ c.outcome = "rateLimited"
  \/ c.outcome = "failed" /\ c.nth >= maxAttempts

\* The models whose latest call, among the settled calls of log, left them
\* with no permitted attempt.
SpentAfter(log) ==
  IF log = <<>> THEN {}
  ELSE LET c == log[Len(log)]
       IN  c.spent \cup (IF Exhausts(c) THEN {c.idx} ELSE {})

\* A retry sent with a user prompt of its own.
Call_retryPrompt(log, m, a, sys, usr) ==
  LET again == log # <<>> /\ log[Len(log)].idx = m
      prev == log[Len(log)]
  IN  [ seq |-> IF log = <<>> THEN 1 ELSE Counted(prev.seq + 1),
        idx |-> m, model |-> fallbackModels[m], attempt |-> a,
        systemPrompt |-> sys,
        userPrompt |-> IF a > 1 THEN usr \o <<"again">> ELSE usr,
        outcome |-> "pending",
        nth |-> IF again THEN Capped(prev.nth + 1) ELSE 1,
        called |-> (IF log = <<>> THEN {} ELSE prev.called) \cup {m},
        spent |-> SpentAfter(log) \ {m} ]

\* The record of the provider call issued after the calls of log: seq is its
\* position among the calls of the invocation, nth its position among the
\* consecutive calls to its model, called the models called so far, spent
\* the models left with no permitted attempt.
Call(log, m, a, sys, usr) ==
  LET again == log # <<>> /\ log[Len(log)].idx = m
      prev == log[Len(log)]
  IN  [ seq |-> IF log = <<>> THEN 1 ELSE Counted(prev.seq + 1),
        idx |-> m, model |-> fallbackModels[m], attempt |-> a,
        systemPrompt |-> sys, userPrompt |-> usr, outcome |-> "pending",
        nth |-> IF again THEN Capped(prev.nth + 1) ELSE 1,
        called |-> (IF log = <<>> THEN {} ELSE prev.called) \cup {m},
        spent |-> SpentAfter(log) \ {m} ]

\* The last two entries of a history of calls.
LastTwo(log) == IF Len(log) <= 2 THEN log ELSE SubSeq(log, Len(log) - 1, Len(log))

\* Nothing is sent when no attempt succeeded.
Responses_silentOnExhaustion(th, sys, usr, final) ==
  IF ~Truthy(final)
  THEN { NothingSent }
  ELSE { [via |-> "json", status |-> 200,
          body |-> [systemPrompt |-> sys, userPrompt |-> usr,
                    response |-> final]] }

\* Exhaustion throws instead of falling back.
Responses_throwOnExhaustion(th, sys, usr, final) ==
  IF ~Truthy(final)
  THEN { [via |-> "next", status |-> 500,
          body |-> [error |-> "Failed to obtain a valid fortune response"]] }
  ELSE { [via |-> "json", status |-> 200,
          body |-> [systemPrompt |-> sys, userPrompt |-> usr,
                    response |-> final]] }

\* The fallback answer built with the prompts attached.
Responses_fallbackWithPrompts(th, sys, usr, final) ==
  IF ~Truthy(final)
  THEN LET pool == pools[PoolKey(th)]
       IN  { [via |-> "json", status |-> 200,
              body |-> [systemPrompt |-> sys, userPrompt |-> usr,
                        response |->
                          JObj([finalMessage |-> JArrOf(randomFortune)])]] :
             randomFortune \in getRandomElements(pool, 1) }
  ELSE { [via |-> "json", status |-> 200,
          body |-> [systemPrompt |-> sys, userPrompt |-> usr,
                    response |-> final]] }

\* The code after the for loop: the fallback or the validated response;
\* an error thrown there reaches the outer catch and next(error).
Responses(th, sys, usr, final) ==
  IF ~Truthy(final)
  THEN LET pool == pools[PoolKey(th)]
       IN  IF getRandomElementsThrows(pool, 1)
           THEN { [via |-> "next", status |-> 500,
                   body |-> [error |-> "Array length is smaller"]] }
           ELSE { [via |-> "json", status |-> 200,
                   body |-> [response |->
                               JObj([finalMessage |-> JArrOf(randomFortune)])]] :
                  randomFortune \in getRandomElements(pool, 1) }
  ELSE { [via |-> "json", status |-> 200,
          body |-> [systemPrompt |-> sys, userPrompt |-> usr,
                    response |-> final]] }

\* The calls of res.json and next that answer the request, among made.
Answers(made) == Cardinality({ k \in 1..Len(made) : made[k].via # "none" })

\* The fallback branch without its else: the validated branch runs after
\* it.
Terminals_noElse(th, sys, usr, final) ==
  { IF ~Truthy(final) /\ resp.via = "json"
    THEN << resp, [via |-> "json", status |-> 200,
                   body |-> [systemPrompt |-> sys, userPrompt |-> usr,
                             response |-> final]] >>
    ELSE << resp >> : resp \in Responses(th, sys, usr, final) }

\* if (!finalMessageResponse) { ... } else { ... } as the last statement
\* of the try block, and the outer catch: the calls of res.json and next
\* made after the for loop, in order.
Terminals(th, sys, usr, final) ==
  { << resp >> : resp \in Responses(th, sys, usr, final) }

\* The loop variables declared at module level: one binding for every
\* invocation.
Own_shared(r) == Isolated

\* The binding of model, attempts and finalMessageResponse an invocation
\* uses: they are declared inside the handler, so each invocation has its
\* own.
Own(r) == r

\* Control reaches stop st of request r, whose theme and prompts are th, sys
\* and usr, with the given recent calls: the next call is issued, or the
\* response is sent.
Continue(r, st, th, sys, usr, final, log) ==
  /\ model' = [model EXCEPT ![Own(r)] = st.model]
  /\ attempts' = [attempts EXCEPT ![Own(r)] = st.attempts]
  /\ finalMessageResponse' = [finalMessageResponse EXCEPT ![Own(r)] = final]
  /\ IF st.stop = "call"
     THEN /\ pc' = [pc EXCEPT ![r] = "await"]
          /\ recent' = [recent EXCEPT ![r] =
                 LastTwo(Append(log,
                                Call(log, st.model, st.attempts, sys, usr)))]
          /\ sent' = sent
          /\ ended' = ended
          /\ pools' = pools
     ELSE /\ pc' = [pc EXCEPT ![r] = "done"]
          /\ recent' = [recent EXCEPT ![r] = log]
          /\ \E made \in Terminals(th, sys, usr, final) :
               /\ sent' = [sent EXCEPT ![r] = made[1]]
               /\ ended' = [ended EXCEPT ![r] = Answers(made)]
          /\ IF ~Truthy(final) /\ ~getRandomElementsThrows(pools[PoolKey(th)], 1)
             THEN \E arr \in ArrayAfter(pools[PoolKey(th)]) :
                    pools' = [pools EXCEPT ![PoolKey(th)] = arr]
             ELSE pools' = pools

\* A request fails validation: 400 with the validation errors.
RejectRequest(r, t) ==
  /\ pc[r] = "idle"
  /\ ~validateFortuneRequest(t)
  /\ pc' = [pc EXCEPT ![r] = "done"]
  /\ theme' = [theme EXCEPT ![r] = t]
  /\ sent' = [sent EXCEPT ![r] =
               [via |-> "json", status |-> 400, body |-> [errors |-> "theme"]]]
  /\ ended' = [ended EXCEPT ![r] = 1]
  /\ UNCHANGED << systemPrompt, userPrompt, model, attempts,
                  finalMessageResponse, lastError, provider, recent,
                  pools, kind, arg, out >>

\* A valid request, served by adapter ad: the prompts are built and the
\* loop runs to the first provider call.
AcceptRequest(r, t, ad) ==
  /\ pc[r] = "idle"
  /\ validateFortuneRequest(t)
  /\ LET areas == IF t = JStr(<<"wholesome">>)
                  THEN WHOLESOME_FOCUS_AREAS ELSE DARK_FOCUS_AREAS
     IN  /\ ~getRandomElementsThrows(areas, 1)
         /\ \E focus \in getRandomElements(areas, 1) :
              LET sys == <<t.v, focus>>
                  usr == <<"Generate">>
              IN  /\ theme' = [theme EXCEPT ![r] = t]
                  /\ systemPrompt' = [systemPrompt EXCEPT ![r] = sys]
                  /\ userPrompt' = [userPrompt EXCEPT ![r] = usr]
                  /\ provider' = [provider EXCEPT ![r] = ad]
                  /\ lastError' = lastError
                  /\ Continue(r, ForLoop(1, 0), t, sys, usr, JNull, <<>>)
                  /\ UNCHANGED << kind, arg, out >>

\* The handler goes on while the call it issued is still in flight.
Settle_noAwait(log, outcome) == log

\* await: the handler goes on only when the call it issued has completed,
\* with the given outcome.
Settle(log, outcome) == [log EXCEPT ![Len(log)].outcome = outcome]

\* Number of provider calls issued so far by request r.
CallsIssued(r) ==
  IF recent[r] = <<>> THEN 0 ELSE recent[r][Len(recent[r])].seq

\* The awaited provider call of request r settles with outcome o: the rest
\* of the try block, the catch clause, and the loops up to the next await
\* or the response.
ProviderSettles(r, o) ==
  /\ pc[r] = "await"
  /\ o \in Scripted(provider[r], CallsIssued(r))
  /\ LET res == TryBodyOf[o]
         m == model[Own(r)]
         a == attempts[Own(r)]
         final == IF res.ok THEN res.value ELSE finalMessageResponse[Own(r)]
         st == IF res.ok THEN WhileLoop(m, a, final)
               ELSE CatchNext(res.error, m, a, final)
         outcome == IF res.ok THEN "success"
                    ELSE IF o \in RateLimits THEN "rateLimited"
                    ELSE "failed"
         settled == Settle(recent[r], outcome)
     IN  /\ lastError' = IF ~res.ok /\ ~IsRateLimit(res.error)
                         THEN [lastError EXCEPT ![r] = res.error]
                         ELSE lastError
         /\ Continue(r, st, theme[r], systemPrompt[r], userPrompt[r], final,
                     settled)
         /\ UNCHANGED << theme, systemPrompt, userPrompt, provider,
                         kind, arg, out >>

\* One invocation running alone.
Next ==
  \/ \E t \in Themes : RejectRequest(Isolated, t)
  \/ \E t \in Themes, ad \in Adapters : AcceptRequest(Isolated, t, ad)
  \/ \E o \in ProviderOutcomes : ProviderSettles(Isolated, o)

Spec == Init /\ [][Next]_vars

\* One invocation running alone, for each way of declaring the pools with
\* entries or with none.
PoolConfigs ==
  { [wholesome |-> w, dark |-> d] :
      w \in {FALLBACK_WHOLESOME, <<>>}, d \in {FALLBACK_DARK, <<>>} }

ConfigInit ==
  /\ pc = [r \in Reqs |-> "idle"]
  /\ theme = [r \in Reqs |-> JUndefined]
  /\ systemPrompt = [r \in Reqs |-> <<>>]
  /\ userPrompt = [r \in Reqs |-> <<>>]
  /\ model = [r \in Reqs |-> 0]
  /\ attempts = [r \in Reqs |-> 0]
  /\ finalMessageResponse = [r \in Reqs |-> JNull]
  /\ lastError = [r \in Reqs |-> NoError]
  /\ sent = [r \in Reqs |-> NothingSent]
  /\ ended = [r \in Reqs |-> 0]
  /\ provider = [r \in Reqs |-> "any"]
  /\ recent = [r \in Reqs |-> <<>>]
  /\ pools \in PoolConfigs
  /\ kind = "none" /\ arg = <<>> /\ out = <<>>

ConfigSpec == ConfigInit /\ [][Next]_vars

\* The invocations of all requests, interleaved at their awaits, each served
\* by a scripted adapter.
ConcAdapters == Adapters \ {"any"}

ConcNext ==
  \E r \in Reqs :
    \/ \E t \in Themes : RejectRequest(r, t)
    \/ \E t \in Themes, ad \in ConcAdapters : AcceptRequest(r, t, ad)
    \/ \E o \in ProviderOutcomes : ProviderSettles(r, o)

ConcSpec == Init /\ [][ConcNext]_vars

\* Every awaited provider call eventually returns or fails.
FairSpec ==
  Spec /\ WF_vars(\E o \in ProviderOutcomes : ProviderSettles(Isolated, o))

(***************************************************************************)
(* The /fortune handler of the pass-based revision: up to maxAttempts      *)
(* passes over the ladder, one call per model and pass, and a pause after  *)
(* a pass without a valid response.  attempts holds the pass counter       *)
(* attempt, recent the last two events (calls and pauses).                 *)
(***************************************************************************)
\* The condition of the outer for loop, before pass attempt.
PassOuter(attempt, final) ==
  IF attempt < maxAttempts /\ ~Truthy(final)
  THEN [stop |-> "call", model |-> 1, attempts |-> attempt]
  ELSE [stop |-> "exit", model |-> 0, attempts |-> attempt]

\* No pause between the passes.
PassAfterInner_noPause(attempt, final) == PassOuter(attempt + 1, final)

\* After the inner loop: the pause when no response is valid, otherwise
\* attempt++ and the outer condition.
PassAfterInner(attempt, final) ==
  IF ~Truthy(final)
  THEN [stop |-> "pause", model |-> 0, attempts |-> attempt]
  ELSE PassOuter(attempt + 1, final)

\* The same model called again after a failure that is no rate limit.
PassCatchNext_retrySame(rateLimited, m, attempt, final) ==
  IF rateLimited /\ m < Len(fallbackModels)
  THEN [stop |-> "call", model |-> m + 1, attempts |-> attempt]
  ELSE IF ~rateLimited
  THEN [stop |-> "call", model |-> m, attempts |-> attempt]
  ELSE PassAfterInner(attempt, final)

\* The catch clause: with or without the rate-limit warning, the inner loop
\* goes to the next model.
PassCatchNext(rateLimited, m, attempt, final) ==
  IF m < Len(fallbackModels)
  THEN [stop |-> "call", model |-> m + 1, attempts |-> attempt]
  ELSE PassAfterInner(attempt, final)

\* The event issued after the events of log: lap counts the pauses that
\* have elapsed, seq the calls, and failure is the error of the latest call
\* that failed otherwise than by a rate limit of the provider.
PassEvent(log, ev, m) ==
  LET prev == log[Len(log)]
      lap == IF log = <<>> THEN 0
             ELSE IF prev.ev = "pause" /\ prev.outcome = "elapsed"
             THEN Counted(prev.lap + 1) ELSE prev.lap
      calls == IF log = <<>> THEN 0 ELSE prev.seq
  IN  [ ev |-> ev, idx |-> m, lap |-> lap, outcome |-> "pending",
        seq |-> IF ev = "call" THEN Counted(calls + 1) ELSE calls,
        failure |-> IF log = <<>> THEN NoError ELSE prev.failure ]

\* The call issued last settles with provider outcome o.
PassSettled(log, o) ==
  LET res == TryBodyOf[o]
      outcome == IF res.ok THEN "success"
                 ELSE IF o \in RateLimits THEN "rateLimited"
                 ELSE "failed"
  IN  [Settle(log, outcome) EXCEPT
         ![Len(log)].failure = IF outcome = "failed" THEN res.error ELSE @]

\* new Error("Failed to obtain a valid fortune response after multiple
\* attempts")
PassGenericError == Err("Error", "Failed to obtain a valid fortune response")

\* After the loops: the validated response, or the last error (or a new
\* one) thrown to the outer catch and handed to next.
PassResponses(sys, usr, final, err) ==
  IF ~Truthy(final)
  THEN [via |-> "next", status |-> 500,
        body |-> [error |-> IF err = NoError THEN PassGenericError ELSE err]]
  ELSE [via |-> "json", status |-> 200,
        body |-> [systemPrompt |-> sys, userPrompt |-> usr, response |-> final]]

PassContinue(r, st, sys, usr, final, err, log) ==
  /\ model' = [model EXCEPT ![r] = st.model]
  /\ attempts' = [attempts EXCEPT ![r] = st.attempts]
  /\ finalMessageResponse' = [finalMessageResponse EXCEPT ![r] = final]
  /\ lastError' = [lastError EXCEPT ![r] = err]
  /\ IF st.stop = "exit"
     THEN /\ pc' = [pc EXCEPT ![r] = "done"]
          /\ recent' = [recent EXCEPT ![r] = log]
          /\ sent' = [sent EXCEPT ![r] = PassResponses(sys, usr, final, err)]
          /\ ended' = [ended EXCEPT ![r] = 1]
     ELSE /\ pc' = [pc EXCEPT ![r] =
                      IF st.stop = "call" THEN "await" ELSE "pause"]
          /\ recent' = [recent EXCEPT ![r] =
                 LastTwo(Append(log, PassEvent(log, st.stop, st.model)))]
          /\ sent' = sent
          /\ ended' = ended
  /\ UNCHANGED << pools, kind, arg, out >>

\* A valid request: the prompts are built and the first pass starts.
PassAccept(r, t) ==
  /\ pc[r] = "idle"
  /\ validateFortuneRequest(t)
  /\ LET areas == IF t = JStr(<<"wholesome">>)
                  THEN WHOLESOME_FOCUS_AREAS ELSE DARK_FOCUS_AREAS
     IN  /\ ~getRandomElementsThrows(areas, 1)
         /\ \E focus \in getRandomElements(areas, 1) :
              LET sys == <<t.v, focus>>
                  usr == <<"Generate">>
              IN  /\ theme' = [theme EXCEPT ![r] = t]
                  /\ systemPrompt' = [systemPrompt EXCEPT ![r] = sys]
                  /\ userPrompt' = [userPrompt EXCEPT ![r] = usr]
                  /\ provider' = provider
                  /\ PassContinue(r, PassOuter(0, JNull), sys, usr, JNull,
                                  NoError, <<>>)

\* The awaited call settles with outcome o; hasResponse tells whether the
\* error thrown by the provider carries a response property.
PassSettles(r, o, hasResponse) ==
  /\ pc[r] = "await"
  /\ LET res == TryBodyOf[o]
         m == model[r]
         attempt == attempts[r]
         rateLimited == /\ ~res.ok /\ o.thrown /\ hasResponse
                        /\ res.error.status = "429"
         final == IF res.ok THEN res.value ELSE finalMessageResponse[r]
         err == IF res.ok \/ rateLimited THEN lastError[r] ELSE res.error
         st == IF res.ok THEN PassAfterInner(attempt, final)
               ELSE PassCatchNext(rateLimited, m, attempt, final)
     IN  PassContinue(r, st, systemPrompt[r], userPrompt[r], final, err,
                      PassSettled(recent[r], o))
  /\ UNCHANGED << theme, systemPrompt, userPrompt, provider >>

\* The timer of the pause fires: attempt++ and the outer condition.
PauseEnds(r) ==
  /\ pc[r] = "pause"
  /\ PassContinue(r, PassOuter(attempts[r] + 1, finalMessageResponse[r]),
                  systemPrompt[r], userPrompt[r], finalMessageResponse[r],
                  lastError[r], Settle(recent[r], "elapsed"))
  /\ UNCHANGED << theme, systemPrompt, userPrompt, provider >>

PassNext ==
  \/ \E t \in Themes : RejectRequest(Isolated, t)
  \/ \E t \in Themes : PassAccept(Isolated, t)
  \/ \E o \in ProviderOutcomes, hasResponse \in BOOLEAN :
       PassSettles(Isolated, o, hasResponse)
  \/ PauseEnds(Isolated)

PassSpec == Init /\ [][PassNext]_vars

(***************************************************************************)
(* The /fortune handler of the single-model revision: one provider call,   *)
(* then up to maxAttempts attempts at reading its completion.  recent      *)
(* holds the call and the attempts made, finalMessageResponse the variable *)
(* finalMessage.                                                           *)
(***************************************************************************)
SingleModel == "llama-3.3-70b-versatile"

\* The call issued with the prompt; completion is the value the awaited
\* call returned, once it has.
SingleCall(prompt) ==
  [ ev |-> "call", model |-> SingleModel, prompt |-> prompt, attempt |-> 0,
    outcome |-> "pending", completion |-> JUndefined ]

\* The body of the try block: chatCompletion.choices[0]?.message?.content
\* read, tested, parsed, and the finalMessage of the parsed value taken.
ParseTry(content) ==
  IF ~Truthy(content)
  THEN Thrown(Err("Error", "Empty response from Groq API"))
  ELSE LET parsed == JSONparse(content.v)
       IN  IF ~parsed.ok THEN parsed
           ELSE IF GetThrows(parsed.value)
           THEN Thrown(Err("TypeError", "cannot read properties of null"))
           ELSE Returned(Get(parsed.value, "finalMessage"))

\* The error thrown at the first failure.
ParseCatch_giveUpAtOnce(a) ==
  [attempts |-> a + 1, throws |-> a + 1 >= 1]

\* The catch clause: attempts += 1, and the error thrown when the attempts
\* are used up.
ParseCatch(a) ==
  [attempts |-> a + 1, throws |-> a + 1 >= maxAttempts]

SingleParseError == Err("Error", "Failed to parse fortune message")

\* A valid request: the prompt is built for the theme and the call issued.
SingleAccept(r, t) ==
  /\ pc[r] = "idle"
  /\ validateFortuneRequest(t)
  /\ LET prompt == << IF t = JStr(<<"wholesome">>)
                      THEN "encouraging" ELSE "savage" >>
     IN  /\ theme' = [theme EXCEPT ![r] = t]
         /\ userPrompt' = [userPrompt EXCEPT ![r] = prompt]
         /\ recent' = [recent EXCEPT ![r] = << SingleCall(prompt) >>]
  /\ pc' = [pc EXCEPT ![r] = "await"]
  /\ UNCHANGED << systemPrompt, model, attempts, finalMessageResponse,
                  lastError, sent, ended, provider, pools, kind, arg, out >>

\* The awaited call settles: its error goes to the outer catch, its
\* completion to the while loop, entered with attempts = 0.
SingleSettles(r, o) ==
  /\ pc[r] = "await"
  /\ IF o.thrown
     THEN /\ pc' = [pc EXCEPT ![r] = "done"]
          /\ recent' = [recent EXCEPT ![r] = Settle(recent[r], "rejected")]
          /\ sent' = [sent EXCEPT ![r] =
                        [via |-> "next", status |-> 500,
                         body |-> [error |-> o.error]]]
          /\ ended' = [ended EXCEPT ![r] = 1]
     ELSE /\ pc' = [pc EXCEPT ![r] = "parse"]
          /\ recent' = [recent EXCEPT ![r] =
                          [Settle(recent[r], "returned") EXCEPT
                             ![1].completion = o.content]]
          /\ UNCHANGED << sent, ended >>
  /\ attempts' = [attempts EXCEPT ![r] = 0]
  /\ UNCHANGED << theme, systemPrompt, userPrompt, model,
                  finalMessageResponse, lastError, provider, pools,
                  kind, arg, out >>

\* One iteration of while (attempts < maxAttempts): the try block on the
\* completion of the call, and the catch clause when it throws.
ParseStep(r) ==
  /\ pc[r] = "parse"
  /\ attempts[r] < maxAttempts
  /\ LET content == recent[r][1].completion
         res == ParseTry(content)
         caught == ParseCatch(attempts[r])
         event == [ ev |-> "parse", model |-> SingleModel,
                    prompt |-> userPrompt[r], attempt |-> attempts[r] + 1,
                    outcome |-> IF res.ok THEN "parsed" ELSE "failed",
                    completion |-> content ]
         finalMessage == IF res.ok THEN res.value
                         ELSE finalMessageResponse[r]
         leaves == res.ok \/ caught.throws
                     \/ ~(caught.attempts < maxAttempts)
     IN  /\ recent' = [recent EXCEPT ![r] = Append(recent[r], event)]
         /\ finalMessageResponse' =
              [finalMessageResponse EXCEPT ![r] = finalMessage]
         /\ attempts' = [attempts EXCEPT ![r] =
                           IF res.ok THEN @ ELSE caught.attempts]
         /\ pc' = [pc EXCEPT ![r] = IF leaves THEN "done" ELSE "parse"]
         /\ sent' = [sent EXCEPT ![r] =
              IF ~res.ok /\ caught.throws
              THEN [via |-> "next", status |-> 500,
                    body |-> [error |-> SingleParseError]]
              ELSE IF leaves
              THEN [via |-> "json", status |-> 200,
                    body |-> [finalMessage |-> finalMessage]]
              ELSE @]
         /\ ended' = [ended EXCEPT ![r] = IF leaves THEN 1 ELSE @]
  /\ UNCHANGED << theme, systemPrompt, userPrompt, model, lastError,
                  provider, pools, kind, arg, out >>

SingleNext ==
  \/ \E t \in Themes : RejectRequest(Isolated, t)
  \/ \E t \in Themes : SingleAccept(Isolated, t)
  \/ \E o \in ProviderOutcomes : SingleSettles(Isolated, o)
  \/ ParseStep(Isolated)

\* The while loop has no await: once entered it runs to its end.
SingleSpec ==
  Init /\ [][SingleNext]_vars /\ WF_vars(ParseStep(Isolated))

(***************************************************************************)
(* The response cleaner and the validation, applied to inputs of their     *)
(* own.                                                                    *)
(***************************************************************************)
\* Response texts: up to MaxTokens pieces, each a fence marker, a grave
\* accent, a line break, a space or a JSON document.
TextTokens == { Fence, <<Backtick>>, <<"\n">>, <<" ">>, <<"ok14">> }

RECURSIVE TextsOf(_)
TextsOf(n) ==
  IF n = 0 THEN { <<>> }
  ELSE { text \o token : text \in TextsOf(n - 1), token \in TextTokens }

CleanInputs == UNION { TextsOf(n) : n \in 0..MaxTokens }

\* finalMessage strings: n words, bare, padded, and separated by runs of
\* whitespace.
Padded2(str) == <<" ", "\n">> \o str \o <<"\t">>

RECURSIVE WordsApart(_)
WordsApart(n) ==
  IF n = 0 THEN <<" ">>
  ELSE IF n = 1 THEN <<"a">>
  ELSE WordsApart(n - 1) \o <<" ", "\n", "a">>

Messages ==
  UNION { { Words(n), Padded2(Words(n)), WordsApart(n) } : n \in 0..MaxWords }

\* Decoded values: objects whose reasoning, score and finalMessage are each
\* absent or of some type, and the values that are no objects.
FieldNames == {"reasoning", "score", "finalMessage"}

ObjectOf(reasoning, score, finalMessage) ==
  LET val == [reasoning |-> reasoning, score |-> score,
              finalMessage |-> finalMessage]
  IN  JObj([n \in { k \in FieldNames : val[k] # JUndefined } |-> val[n]])

DecodedInputs ==
  { ObjectOf(r, s, f) :
      r \in {JUndefined, JStr(<<"r">>), JNum("7"), JNull},
      s \in {JUndefined, JNum("7"), JStr(<<"7">>), JNull},
      f \in {JUndefined, JNum("7"), JNull} \cup { JStr(m) : m \in Messages } }
  \cup { JNull, JArr, JNum("7"), JStr(<<"a">>), JBool(TRUE) }

PureInit ==
  /\ pc = [r \in Reqs |-> "idle"]
  /\ theme = [r \in Reqs |-> JUndefined]
  /\ systemPrompt = [r \in Reqs |-> <<>>]
  /\ userPrompt = [r \in Reqs |-> <<>>]
  /\ model = [r \in Reqs |-> 0]
  /\ attempts = [r \in Reqs |-> 0]
  /\ finalMessageResponse = [r \in Reqs |-> JNull]
  /\ lastError = [r \in Reqs |-> NoError]
  /\ sent = [r \in Reqs |-> NothingSent]
  /\ ended = [r \in Reqs |-> 0]
  /\ provider = [r \in Reqs |-> "any"]
  /\ recent = [r \in Reqs |-> <<>>]
  /\ pools = LoadedPools
  /\ out = <<>>
  /\ \/ kind = "text" /\ arg \in CleanInputs
     \/ kind = "decoded" /\ arg \in DecodedInputs

\* cleanJSONResponse applied to the text, then to the text it returned.
Clean ==
  /\ kind = "text"
  /\ \/ out = <<>> /\ out' = <<cleanJSONResponse(arg)>>
     \/ /\ Len(out) = 1 /\ out[1].ok
        /\ out' = Append(out, cleanJSONResponse(out[1].value.v))
  /\ UNCHANGED << handlerVars, kind, arg >>

\* The validation applied to the decoded value.
ValidateDecoded ==
  /\ kind = "decoded"
  /\ out = <<>>
  /\ out' = <<Validate(arg)>>
  /\ UNCHANGED << handlerVars, kind, arg >>

PureNext == Clean \/ ValidateDecoded

PureSpec == PureInit /\ [][PureNext]_vars

(***************************************************************************)
(* Properties.                                                             *)
(***************************************************************************)
\* The shapes of a response.
IsValidated(s) ==
  /\ s.via = "json" /\ s.status = 200
  /\ DOMAIN s.body = {"systemPrompt", "userPrompt", "response"}

IsFallback(s) ==
  /\ s.via = "json" /\ s.status = 200
  /\ DOMAIN s.body = {"response"}
  /\ DOMAIN s.body.response.f = {"finalMessage"}

IsBadRequest(s) == s.via = "json" /\ s.status = 400

ValidTheme(t) == t \in {JStr(<<"wholesome">>), JStr(<<"dark">>)}

\* The call of request r issued last, and whether some call succeeded.
LastCall(r) == recent[r][Len(recent[r])]
Succeeded(r) == \E k \in 1..Len(recent[r]) : recent[r][k].outcome = "success"

\* Number of words of a string: maximal runs of non-whitespace characters.
WordsIn(str) ==
  Cardinality({ i \in 1..Len(str) :
                  ~IsSpace(str[i]) /\ (i = 1 \/ IsSpace(str[i - 1])) })

\* C1: for a valid theme, whatever the provider outcomes were, the handler
\* answers with a Validated or a Fallback result and never hands an error to
\* the error handler; when no attempt succeeded the answer is Fallback.
C1_ValidatedOrFallback ==
  \A r \in Reqs :
    (pc[r] = "done" /\ ValidTheme(theme[r])) =>
      /\ sent[r].via # "next"
      /\ IsValidated(sent[r]) \/ IsFallback(sent[r])
      /\ ~Succeeded(r) => IsFallback(sent[r])

C1_Witness ==
  /\ pc[Isolated] = "done" /\ ValidTheme(theme[Isolated])
  /\ IsFallback(sent[Isolated])
  /\ lastError[Isolated].name = "SyntaxError"

\* C2: an invocation with a valid theme whose provider calls all settle
\* eventually reaches a terminal state, Validated or Fallback.
C2_Terminates ==
  \A r \in Reqs :
    (pc[r] = "await") ~>
      (pc[r] = "done" /\ (IsValidated(sent[r]) \/ IsFallback(sent[r])))

C2_Witness ==
  /\ pc[Isolated] = "done"
  /\ CallsIssued(Isolated) = Len(fallbackModels) * maxAttempts

\* C3: a provider call that yields an accepted response is the last call of
\* its invocation: it is followed by no call, and the invocation is over.
C3_NoCallAfterSuccess ==
  \A r \in Reqs : \A k \in 1..Len(recent[r]) :
    recent[r][k].outcome = "success" =>
      (k = Len(recent[r]) /\ pc[r] = "done")

C3_Witness ==
  /\ Succeeded(Isolated)
  /\ LastCall(Isolated).attempt < maxAttempts
  /\ LastCall(Isolated).idx < Len(fallbackModels)
  /\ LastCall(Isolated).idx > 1

\* C4: the call that follows a rate-limited call to model i is attempt 1 of
\* model i + 1; calls never go back to an earlier model, so model i is not
\* called again.
C4_RateLimitAdvances ==
  \A r \in Reqs :
    Len(recent[r]) = 2 =>
      /\ recent[r][2].idx >= recent[r][1].idx
      /\ recent[r][1].outcome = "rateLimited" =>
           /\ recent[r][2].idx = recent[r][1].idx + 1
           /\ recent[r][2].attempt = 1

C4_Witness ==
  /\ Len(recent[Isolated]) = 2
  /\ recent[Isolated][1].outcome = "rateLimited"
  /\ recent[Isolated][1].attempt = 2

\* C5: the call that follows a call to model i that failed for another
\* reason than a rate limit on attempt k is attempt k + 1 of model i when
\* k < maxAttempts and attempt 1 of model i + 1 when k = maxAttempts; an
\* invocation ends on such a failure only on the last attempt of the last
\* model, with Fallback.
C5_FailureRetriesThenAdvances ==
  \A r \in Reqs :
    /\ (Len(recent[r]) = 2 /\ recent[r][1].outcome = "failed") =>
         IF recent[r][1].attempt < maxAttempts
         THEN /\ recent[r][2].idx = recent[r][1].idx
              /\ recent[r][2].attempt = recent[r][1].attempt + 1
         ELSE /\ recent[r][1].attempt = maxAttempts
              /\ recent[r][2].idx = recent[r][1].idx + 1
              /\ recent[r][2].attempt = 1
    /\ (Len(recent[r]) > 0 /\ LastCall(r).outcome = "failed") =>
         /\ pc[r] = "done"
         /\ LastCall(r).attempt = maxAttempts
         /\ LastCall(r).idx = Len(fallbackModels)
         /\ IsFallback(sent[r])

C5_Witness ==
  /\ Len(recent[Isolated]) = 2
  /\ recent[Isolated][1].outcome = "failed"
  /\ recent[Isolated][1].attempt = maxAttempts
  /\ recent[Isolated][2].idx = recent[Isolated][1].idx + 1
  /\ recent[Isolated][2].attempt = 1
  /\ lastError[Isolated].message = "Empty response from Groq API"

\* C6: when every call is rate limited, the k-th call of the invocation is
\* the first attempt on the k-th model of the ladder, and the invocation
\* ends in Fallback after its 6th call: one call to each model, in order.
C6_AllRateLimited ==
  \A r \in Reqs :
    provider[r] = "rateLimited" =>
      /\ \A k \in 1..Len(recent[r]) :
           /\ recent[r][k].seq \in Ladder
           /\ recent[r][k].idx = recent[r][k].seq
           /\ recent[r][k].model = fallbackModels[recent[r][k].seq]
           /\ recent[r][k].attempt = 1
      /\ pc[r] = "done" =>
           /\ CallsIssued(r) = Len(fallbackModels)
           /\ IsFallback(sent[r])

C6_Witness ==
  /\ provider[Isolated] = "rateLimited"
  /\ pc[Isolated] = "done"
  /\ LastCall(Isolated).outcome = "rateLimited"

\* C7: when the first maxAttempts - 1 calls fail with a transport error and
\* the next call succeeds, every call of the invocation goes to the first
\* model, and the invocation returns Validated after exactly maxAttempts
\* calls.
C7_TransportThenSuccess ==
  \A r \in Reqs :
    provider[r] = "transportThenSuccess" =>
      /\ \A k \in 1..Len(recent[r]) :
           /\ recent[r][k].idx = 1
           /\ recent[r][k].attempt = recent[r][k].seq
      /\ pc[r] = "done" =>
           /\ IsValidated(sent[r])
           /\ CallsIssued(r) = maxAttempts
           /\ LastCall(r).outcome = "success"

C7_Witness ==
  /\ provider[Isolated] = "transportThenSuccess"
  /\ pc[Isolated] = "done"
  /\ lastError[Isolated].name = "APIError"

\* C8: when the first call succeeds, the invocation returns Validated, the
\* call went to llama-3.3-70b-versatile, and it is the only call.
C8_FirstCallSucceeds ==
  \A r \in Reqs :
    provider[r] = "successFirst" =>
      /\ CallsIssued(r) = 1
      /\ recent[r][1].model = "llama-3.3-70b-versatile"
      /\ recent[r][1].attempt = 1
      /\ pc[r] = "done" =>
           (IsValidated(sent[r]) /\ recent[r][1].outcome = "success")

C8_Witness ==
  /\ provider[Isolated] = "successFirst"
  /\ pc[Isolated] = "done"
  /\ lastError[Isolated] = NoError

\* C9: a request whose theme is not the string wholesome or dark is
\* answered 400 at once, and no provider call is issued for it.
C9_InvalidThemeRejected ==
  \A r \in Reqs :
    (pc[r] # "idle" /\ ~ValidTheme(theme[r])) =>
      /\ pc[r] = "done"
      /\ IsBadRequest(sent[r])
      /\ CallsIssued(r) = 0
      /\ recent[r] = <<>>

C9_Witness ==
  /\ pc[Isolated] = "done"
  /\ theme[Isolated] = JStr(<<"Dark">>)
  /\ IsBadRequest(sent[Isolated])

\* C10: the candidate of a Validated result has a string reasoning, a
\* number score and a string finalMessage of fewer than 15 words.
C10_ValidatedIsWellFormed ==
  \A r \in Reqs :
    IsValidated(sent[r]) =>
      LET c == sent[r].body.response
      IN  /\ c.t = "object"
          /\ {"reasoning", "score", "finalMessage"} \subseteq DOMAIN c.f
          /\ c.f["reasoning"].t = "string"
          /\ c.f["score"].t = "number"
          /\ c.f["finalMessage"].t = "string"
          /\ WordsIn(c.f["finalMessage"].v) < 15

C10_Witness ==
  /\ IsValidated(sent[Isolated])
  /\ WordsIn(sent[Isolated].body.response.f["finalMessage"].v) = 14

\* C11: a 200 answer sent after a successful attempt carries exactly the
\* system prompt, the user prompt and the accepted candidate; a 200 answer
\* sent when no attempt succeeded carries only a response with a
\* finalMessage, no prompts, no score and no reasoning, and no candidate was
\* ever kept, whatever the failed attempts had decoded.
C11_ShapesDistinguishable ==
  \A r \in Reqs :
    (pc[r] = "done" /\ sent[r].via = "json" /\ sent[r].status = 200) =>
      LET b == sent[r].body
      IN  IF Succeeded(r)
          THEN /\ DOMAIN b = {"systemPrompt", "userPrompt", "response"}
               /\ b.systemPrompt = systemPrompt[r]
               /\ b.userPrompt = userPrompt[r]
               /\ b.response = finalMessageResponse[r]
               /\ b.response # JNull
          ELSE /\ DOMAIN b = {"response"}
               /\ DOMAIN b.response.f = {"finalMessage"}
               /\ finalMessageResponse[r] = JNull

C11_Witness ==
  /\ IsFallback(sent[Isolated])
  /\ lastError[Isolated].message =
       "Response JSON does not match the required schema"

\* The pool of a theme, as a set of strings.
PoolOf(t) ==
  LET pool == IF t = JStr(<<"wholesome">>)
              THEN FALLBACK_WHOLESOME ELSE FALLBACK_DARK
  IN  { JStr(pool[i]) : i \in 1..Len(pool) }

\* C12: the finalMessage of a Fallback result is a member of the pool of the
\* requested theme, hence no member of the other pool and no value outside
\* both pools.
C12_FallbackFromThemePool ==
  \A r \in Reqs :
    IsFallback(sent[r]) =>
      sent[r].body.response.f["finalMessage"] \in PoolOf(theme[r])

\* C13: the finalMessage of a Fallback result is a single string, not a list
\* of pool entries.
C13_FallbackMessageIsString ==
  \A r \in Reqs :
    IsFallback(sent[r]) =>
      TypeOf(sent[r].body.response.f["finalMessage"]) = "string"

\* A decoded object whose three fields are present with the required types.
WellTyped(d) ==
  /\ FieldNames \subseteq DOMAIN d.f
  /\ d.f["reasoning"].t = "string"
  /\ d.f["score"].t = "number"
  /\ d.f["finalMessage"].t = "string"

\* C14: the validation of a decoded object in which reasoning, score or
\* finalMessage is missing or of the wrong type fails with an error; the
\* object is not accepted.
C14_IllTypedObjectInvalid ==
  (kind = "decoded" /\ out # <<>> /\ arg.t = "object" /\ ~WellTyped(arg)) =>
    /\ ~out[1].ok
    /\ out[1].error.name = "Error"

C14_Witness ==
  /\ kind = "decoded" /\ out # <<>> /\ arg.t = "object"
  /\ DOMAIN arg.f = FieldNames
  /\ arg.f["reasoning"].t = "string"
  /\ arg.f["score"].t = "string"
  /\ arg.f["finalMessage"] = JStr(Words(3))
  /\ ~out[1].ok

\* C15: the validation of a correctly typed object fails with the
\* word-count error, which is not the schema error, when finalMessage has
\* 15 or more whitespace-separated words, and accepts the object when it
\* has between 1 and 14 words.
C15_WordCountRule ==
  (kind = "decoded" /\ out # <<>> /\ arg.t = "object" /\ WellTyped(arg)) =>
    LET n == WordsIn(arg.f["finalMessage"].v)
    IN  /\ n >= 15 =>
             /\ ~out[1].ok
             /\ out[1].error.message = "finalMessage contains too many words"
             /\ out[1].error.message #
                  "Response JSON does not match the required schema"
        /\ n \in 1..14 => out[1] = Returned(arg)

C15_Witness ==
  /\ kind = "decoded" /\ out # <<>> /\ arg.t = "object" /\ WellTyped(arg)
  /\ arg.f["finalMessage"].v = Padded2(Words(15))
  /\ ~out[1].ok

\* C16: cleaning the text that cleanJSONResponse returned returns that text
\* again.
C16_CleanIdempotent ==
  (kind = "text" /\ Len(out) = 2) => out[2] = out[1]

\* C17: cleanJSONResponse raises for no input text.
C17_CleanNeverRaises ==
  kind = "text" => \A k \in 1..Len(out) : out[k].ok

\* The text the cleaner is to return: for a text that, trimmed, starts with
\* a fence marker, its lines without the first and without the last when
\* the last starts with a fence marker, joined and trimmed; otherwise the
\* text itself.
Cleaned(text) ==
  LET trimmed == Trim(text)
      rest == Tail(SplitLines(trimmed, <<>>))
      kept == IF rest # <<>> /\ StartsWith(rest[Len(rest)], Fence)
              THEN SubSeq(rest, 1, Len(rest) - 1)
              ELSE rest
  IN  IF StartsWith(trimmed, Fence) THEN Trim(JoinLines(kept)) ELSE text

\* C18: cleanJSONResponse returns, for a fenced text, the trimmed text
\* without its first line and without its last line when that one is a
\* fence marker, rejoined and trimmed, and returns any other text unchanged.
C18_CleanResult ==
  (kind = "text" /\ out # <<>>) => out[1] = Returned(JStr(Cleaned(arg)))

\* C19: when every call of an invocation ends with an empty payload or with
\* a transport error, in any mix, the k-th call is the same whichever of the
\* two the earlier calls met: each failure uses up one attempt, the model is
\* retried until maxAttempts calls were made to it and only then abandoned,
\* and the invocation ends in Fallback after maxAttempts calls to each model.
C19_EmptyLikeTransportError ==
  \A r \in Reqs :
    provider[r] = "emptyOrTransport" =>
      /\ \A k \in 1..Len(recent[r]) :
           LET c == recent[r][k]
           IN  /\ c.seq \in 1..(maxAttempts * Len(fallbackModels))
               /\ c.idx = ((c.seq - 1) \div maxAttempts) + 1
               /\ c.attempt = ((c.seq - 1) % maxAttempts) + 1
               /\ c.outcome \in {"pending", "failed"}
      /\ pc[r] = "done" =>
           /\ CallsIssued(r) = maxAttempts * Len(fallbackModels)
           /\ IsFallback(sent[r])

\* The call that met an empty payload was attempt 1; attempt 2 on the same
\* model is in flight.
C19_Witness ==
  /\ provider[Isolated] = "emptyOrTransport"
  /\ Len(recent[Isolated]) = 2
  /\ recent[Isolated][1].outcome = "failed"
  /\ recent[Isolated][1].attempt = 1
  /\ recent[Isolated][2].outcome = "pending"
  /\ recent[Isolated][2].idx = recent[Isolated][1].idx
  /\ recent[Isolated][2].attempt = 2
  /\ lastError[Isolated].message = "Empty response from Groq API"

\* C20: of the calls of one invocation only the one issued last can be in
\* flight, and it is in flight exactly while the handler awaits it: every
\* earlier call has completed and has its outcome.
C20_OneCallInFlight ==
  \A r \in Reqs :
    /\ \A k \in 1..Len(recent[r]) :
         recent[r][k].outcome = "pending" =>
           k = Len(recent[r]) /\ pc[r] = "await"
    /\ pc[r] = "await" =>
         recent[r] # <<>> /\ LastCall(r).outcome = "pending"

C20_Witness ==
  /\ pc[Isolated] = "await"
  /\ Len(recent[Isolated]) = 2
  /\ recent[Isolated][1].outcome = "failed"
  /\ recent[Isolated][2].outcome = "pending"

\* C22: when a Fallback result is sent, every model of the ladder has been
\* called, and the latest call to each of them was rate limited or was the
\* maxAttempts-th failure of another kind on that model: no model has a
\* permitted attempt left.
C22_FallbackOnlyWhenExhausted ==
  \A r \in Reqs :
    IsFallback(sent[r]) =>
      /\ recent[r] # <<>>
      /\ LastCall(r).called = Ladder
      /\ SpentAfter(recent[r]) = Ladder

C22_Witness ==
  /\ IsFallback(sent[Isolated])
  /\ Len(recent[Isolated]) = 2
  /\ recent[Isolated][1].outcome = "failed"
  /\ recent[Isolated][1].idx = Len(fallbackModels)
  /\ recent[Isolated][2].outcome = "rateLimited"

\* C23: the first call of an invocation goes to the first model of the
\* ladder, and each later call goes to the model of the call before it or
\* to the next model of the ladder: no model is skipped and none is called
\* again after a later one.
C23_LadderLeftToRight ==
  \A r \in Reqs :
    /\ \A k \in 1..Len(recent[r]) :
         LET c == recent[r][k]
         IN  /\ c.idx \in Ladder
             /\ c.model = fallbackModels[c.idx]
             /\ c.seq = 1 => c.idx = 1
             /\ c.called = 1..c.idx
    /\ Len(recent[r]) = 2 =>
         recent[r][2].idx - recent[r][1].idx \in {0, 1}

C23_Witness ==
  /\ Len(recent[Isolated]) = 2
  /\ recent[Isolated][1].idx = 1
  /\ recent[Isolated][1].attempt = 2
  /\ recent[Isolated][2].idx = 2

C30_CallBudget ==
  \A r \in Reqs :
    /\ CallsIssued(r) <= maxAttempts * Len(fallbackModels)
    /\ \A k \in 1..Len(recent[r]) :
         LET c == recent[r][k]
         IN  /\ c.nth <= maxAttempts
             /\ c.attempt = c.nth
    /\ Len(recent[r]) = 2 /\ recent[r][1].idx # recent[r][2].idx =>
         /\ recent[r][2].idx > recent[r][1].idx
         /\ recent[r][2].nth = 1
         /\ recent[r][1].outcome = "failed" => recent[r][1].nth = maxAttempts

C30_Witness ==
  /\ pc[Isolated] = "done"
  /\ CallsIssued(Isolated) = maxAttempts * Len(fallbackModels)
  /\ LastCall(Isolated).nth = maxAttempts

\* What belongs to the invocation of request r.
LocalState(r) ==
  << pc[r], theme[r], systemPrompt[r], userPrompt[r], model[r], attempts[r],
     finalMessageResponse[r], lastError[r], sent[r], ended[r], provider[r],
     recent[r] >>

\* The ladder cursor, attempt counter and accepted response of request r
\* are those of its own calls.
OwnProgress(r) ==
  /\ pc[r] = "await" =>
       /\ model[r] = LastCall(r).idx
       /\ attempts[r] = LastCall(r).attempt
       /\ finalMessageResponse[r] = JNull
  /\ pc[r] = "done" /\ Succeeded(r) =>
       /\ model[r] = LastCall(r).idx
       /\ attempts[r] = LastCall(r).attempt
       /\ finalMessageResponse[r] = sent[r].body.response

\* C21: with the invocations interleaved at their awaits, a step of one
\* invocation leaves everything of the other as it was, the cursor, counter
\* and accepted response of each are those of its own calls, and each
\* invocation follows the retry policy and answers as it does when it runs
\* alone.
C21_NoInterference ==
  /\ [][ \A r \in Reqs :
           LocalState(r)' # LocalState(r) =>
             \A q \in Reqs \ {r} : LocalState(q)' = LocalState(q) ]_vars
  /\ [](/\ \A r \in Reqs : OwnProgress(r)
        /\ C3_NoCallAfterSuccess
        /\ C4_RateLimitAdvances
        /\ C5_FailureRetriesThenAdvances
        /\ C11_ShapesDistinguishable)

C21_Witness ==
  /\ \A r \in Reqs : pc[r] = "await"
  /\ \E r \in Reqs :
       /\ model[r] = 3 /\ attempts[r] = 1
       /\ \A q \in Reqs \ {r} : model[q] = 1 /\ attempts[q] = 2

\* C29: whatever invocations ran, interleaved in whatever way, the two
\* fallback pools hold the entries they held at load time, in the same
\* order.
C29_PoolsUnchanged ==
  /\ pools["wholesome"] = FALLBACK_WHOLESOME
  /\ pools["dark"] = FALLBACK_DARK

C29_Witness ==
  /\ \A r \in Reqs : IsFallback(sent[r])
  /\ \E r \in Reqs : theme[r] = JStr(<<"wholesome">>)
  /\ \E r \in Reqs : theme[r] = JStr(<<"dark">>)

C28_NonObjectInvalid ==
  (kind = "decoded" /\ out # <<>> /\ arg.t # "object") =>
    /\ ~out[1].ok
    /\ ~IsRateLimit(out[1].error)
    /\ \A m \in Ladder, a \in 1..maxAttempts :
         CatchNext(out[1].error, m, a, JNull) = WhileLoop(m, a, JNull)

C28_Witness ==
  /\ kind = "decoded" /\ out # <<>>
  /\ arg = JNull
  /\ ~out[1].ok
  /\ out[1].error.name = "TypeError"

\* A call of the pass-based handler that ended without a valid response.
PassFailed(e) == e.ev = "call" /\ e.outcome \in {"failed", "rateLimited"}

\* C26: in the pass-based revision, the failed call to the last model of
\* the ladder is followed at once by one pause; a pause follows nothing
\* else; the first call of a following pass is issued only when that pause
\* has elapsed; and a call that obtained a valid response is followed by no
\* pause and no call.
C26_PauseAfterFailedPass ==
  \A r \in Reqs :
    /\ pc[r] = "pause" <=>
         /\ recent[r] # <<>>
         /\ LastCall(r).ev = "pause" /\ LastCall(r).outcome = "pending"
    /\ \A k \in 1..Len(recent[r]) :
         LET e == recent[r][k]
         IN  /\ (PassFailed(e) /\ e.idx = Len(fallbackModels)) =>
                  /\ k < Len(recent[r])
                  /\ recent[r][k + 1].ev = "pause"
                  /\ recent[r][k + 1].lap = e.lap
             /\ (e.ev = "pause" /\ k = Len(recent[r])) =>
                  /\ k = 2
                  /\ PassFailed(recent[r][1])
                  /\ recent[r][1].idx = Len(fallbackModels)
             /\ (e.ev = "call" /\ e.seq > 1 /\ e.idx = 1
                   /\ k = Len(recent[r])) =>
                  /\ k = 2
                  /\ recent[r][1].ev = "pause"
                  /\ recent[r][1].outcome = "elapsed"
                  /\ e.lap = recent[r][1].lap + 1
             /\ (e.ev = "call" /\ e.outcome = "success") =>
                  /\ k = Len(recent[r])
                  /\ pc[r] = "done" /\ IsValidated(sent[r])

C26_Witness ==
  /\ pc[Isolated] = "await"
  /\ Len(recent[Isolated]) = 2
  /\ recent[Isolated][1].ev = "pause"
  /\ recent[Isolated][1].outcome = "elapsed"
  /\ recent[Isolated][2].ev = "call"
  /\ recent[Isolated][2].lap = 1

\* C27: in the pass-based revision, a call that failed, rate limited or
\* not, is followed by the call to the next model of the ladder, or by the
\* pause when it was the last; the k-th model is the k-th call of its pass,
\* so a model is called once per pass and again only in a later pass; and
\* there are at most maxAttempts passes.
C27_PassAdvancesImmediately ==
  \A r \in Reqs :
    /\ \A k \in 1..Len(recent[r]) :
         LET e == recent[r][k]
         IN  e.ev = "call" =>
               /\ e.idx \in Ladder
               /\ e.lap < maxAttempts
               /\ e.seq = e.lap * Len(fallbackModels) + e.idx
    /\ (Len(recent[r]) = 2 /\ recent[r][2].ev = "call"
          /\ recent[r][1].ev = "call") =>
         /\ PassFailed(recent[r][1])
         /\ recent[r][2].idx = recent[r][1].idx + 1
         /\ recent[r][2].lap = recent[r][1].lap
    /\ (Len(recent[r]) = 2 /\ PassFailed(recent[r][1])) =>
         \/ recent[r][2].ev = "call"
         \/ recent[r][1].idx = Len(fallbackModels)

C27_Witness ==
  /\ Len(recent[Isolated]) = 2
  /\ recent[Isolated][1].ev = "call"
  /\ recent[Isolated][1].outcome = "failed"
  /\ recent[Isolated][1].idx = 2
  /\ recent[Isolated][1].lap = 1
  /\ recent[Isolated][2].ev = "call"
  /\ recent[Isolated][2].idx = 3

\* C31: in the pass-based revision, a request whose passes all ended
\* without a valid response sends no fortune and hands an error to the
\* error handler: the error of the latest call that failed otherwise than
\* by a rate limit when there was such a call, and the generic error when
\* every call was rate limited.
C31_ForwardedError ==
  \A r \in Reqs :
    (pc[r] = "done" /\ theme[r] \in Themes /\ validateFortuneRequest(theme[r])
       /\ ~Truthy(finalMessageResponse[r])) =>
      /\ sent[r].via = "next"
      /\ sent[r].body.error =
           IF LastCall(r).failure # NoError
           THEN LastCall(r).failure ELSE PassGenericError

\* The kinds of terminal response that s is.
TerminalKinds(s) ==
  { k \in {"badRequest", "validated", "fallback", "errorHandler"} :
      \/ k = "badRequest" /\ IsBadRequest(s)
      \/ k = "validated" /\ IsValidated(s)
      \/ k = "fallback" /\ IsFallback(s)
      \/ k = "errorHandler" /\ s.via = "next" }

\* C32: a request that the handler has finished with was answered by one
\* call of res.json or next, which is exactly one of the 400 validation
\* response, the Validated response, the Fallback response and the
\* hand-off to the error handler, the 400 response going to the requests
\* with an invalid theme and to no other; a request it has not finished
\* with was not answered yet and waits for a provider call.
C32_OneTerminalResponse ==
  \A r \in Reqs :
    /\ pc[r] \in {"idle", "await", "done"}
    /\ ended[r] = IF pc[r] = "done" THEN 1 ELSE 0
    /\ pc[r] # "done" => sent[r] = NothingSent
    /\ pc[r] = "done" =>
         /\ Cardinality(TerminalKinds(sent[r])) = 1
         /\ IsBadRequest(sent[r]) <=> ~validateFortuneRequest(theme[r])

C32_Witness ==
  /\ pc[Isolated] = "done"
  /\ ended[Isolated] = 1
  /\ sent[Isolated].via = "next"
  /\ pools["wholesome"] # <<>>

\* The first attempt of request r at reading the completion failed.
FirstParseFailed(r) ==
  Len(recent[r]) >= 2 /\ recent[r][2].outcome = "failed"

\* Request r ended with the parse error handed to the error handler.
EndedWithParseError(r) ==
  /\ pc[r] = "done"
  /\ sent[r].via = "next" /\ sent[r].body.error = SingleParseError
  /\ Len(recent[r]) = 1 + maxAttempts

\* C33: in the single-model revision, a request with a valid theme issues
\* one provider call, before the first attempt and none after it; every
\* attempt, at most maxAttempts of them, examines the completion that call
\* returned; and when the first attempt has failed, every attempt fails and
\* the request ends, after maxAttempts attempts, with an error handed to
\* the error handler.
C33_OneCallParsedThrice ==
  /\ [](\A r \in Reqs :
          LET log == recent[r]
          IN  /\ (pc[r] # "idle" /\ validateFortuneRequest(theme[r])) =>
                   /\ Len(log) >= 1 /\ Len(log) <= 1 + maxAttempts
                   /\ log[1].ev = "call"
                   /\ pc[r] = "parse" => log[1].outcome = "returned"
              /\ \A k \in 2..Len(log) :
                   /\ log[k].ev = "parse"
                   /\ log[k].attempt = k - 1
                   /\ log[k].completion = log[1].completion
                   /\ log[1].outcome = "returned"
              /\ FirstParseFailed(r) =>
                   /\ \A k \in 2..Len(log) : log[k].outcome = "failed"
                   /\ attempts[r] = Len(log) - 1
                   /\ pc[r] = "done" => EndedWithParseError(r))
  /\ \A r \in Reqs : FirstParseFailed(r) ~> EndedWithParseError(r)

C33_Witness ==
  /\ FirstParseFailed(Isolated)
  /\ EndedWithParseError(Isolated)
  /\ Truthy(recent[Isolated][1].completion)
  /\ attempts[Isolated] = maxAttempts

\* The documents that are correctly typed and whose finalMessage is empty
\* or only whitespace, and the completions that carry one of them.
BlankDocs ==
  { d \in DocAtoms :
      /\ DocValue[d].t = "object" /\ WellTyped(DocValue[d])
      /\ Trim(DocValue[d].f["finalMessage"].v) = <<>> }

BlankCompletions ==
  { o \in ProviderOutcomes :
      /\ ~o.thrown /\ o.content.t = "string"
      /\ \E d \in BlankDocs : o.content.v \in {Plain(d), Padded(d), Fenced(d)} }

\* C34: a completion that carries a correctly typed document whose
\* finalMessage is empty or only whitespace is counted as fewer than
\* WordLimit words, and the step in which the handler receives it ends the
\* request with the Validated response that returns the document.
C34_BlankMessageAccepted ==
  [][\A o \in BlankCompletions :
       ProviderSettles(Isolated, o) =>
         LET parsed == JSONparse(cleanJSONResponse(o.content.v).value.v).value
         IN  /\ wordCount(parsed.f["finalMessage"].v) < WordLimit
             /\ pc'[Isolated] = "done"
             /\ IsValidated(sent'[Isolated])
             /\ sent'[Isolated].body.response = parsed
             /\ finalMessageResponse'[Isolated] = parsed]_vars

C34_Witness ==
  /\ pc[Isolated] = "done"
  /\ IsValidated(sent[Isolated])
  /\ WellTyped(sent[Isolated].body.response)
  /\ Trim(sent[Isolated].body.response.f["finalMessage"].v) = <<>>
  /\ sent[Isolated].body.response.f["finalMessage"].v # <<>>

====
